---- MODULE Spec2Model ----
(***************************************************************************)
(* Model of the yew-playground backend relay                               *)
(* (services/backend/src/main.rs): the process start-up, the lazily        *)
(* initialised configuration, and the /api/run handler `run`, which posts  *)
(* the code to the compiler service and assembles the HTML page.           *)
(*                                                                         *)
(* Text is a sequence of tokens, each token a piece of the string; the     *)
(* string is the concatenation of its tokens.  The tokens are chosen so    *)
(* that every occurrence of a pattern the code searches for ("export       *)
(* default", the two template markers, ";", whitespace) is exactly one     *)
(* token, hence str::split, str::trim, str::strip_suffix and str::replace  *)
(* act on tokens as they act on the characters.                            *)
(***************************************************************************)
EXTENDS Integers, Sequences, FiniteSets, TLC

VARIABLES
    envUrl,        \* whether COMPILER_URL is set in the process environment
    compilerUrl,   \* the lazy_static cell COMPILER_URL: "uninit", "ready", "poisoned"
    server,        \* main: "boot", "serving", "crashed"
    pc,            \* the handler's position: "idle", "send", "status", "done", "panicked"
    code,          \* body.code of the job in hand
    res,           \* the compiler's response (status and body) once send() returned
    run_response,  \* the decoded common::Response
    init_fn,       \* the Option<&str> of line 97
    result,        \* what run returned
    calls,         \* outbound requests issued by the job in hand
    responses      \* responses written to the job's caller

vars == <<envUrl, compilerUrl, server, pc, code, res, run_response, init_fn,
          result, calls, responses>>

----------------------------------------------------------------------------
(* Bounds *)

MaxScriptLen == 5

----------------------------------------------------------------------------
(* Constants of the program *)

ExportDefault == "export default"

JsMarker == "/*JS_GOES_HERE*/"

InitMarker == "/*INIT_GOES_HERE*/"

INDEX_HTML ==
    << "<!doctype html><html lang=en><head>...</head><body><script type=module>",
       JsMarker,
       "\n    ",
       InitMarker,
       "</script></body></html>" >>

NotFoundMsg == <<"failed to find init function as default export in js">>

ServiceErrorPrefix == <<"Compiler service returned an error: ">>

----------------------------------------------------------------------------
(* Options *)

None == [some |-> FALSE, val |-> <<>>]

Some(v) == [some |-> TRUE, val |-> v]

----------------------------------------------------------------------------
(* String operations of the standard library, on token sequences *)

IsWhitespace(t) == t \in {" ", "\n", "\t"}

RECURSIVE TrimStart(_)
TrimStart(s) ==
    IF s # <<>> /\ IsWhitespace(Head(s)) THEN TrimStart(Tail(s)) ELSE s

RECURSIVE TrimEnd(_)
TrimEnd(s) ==
    IF s # <<>> /\ IsWhitespace(s[Len(s)])
    THEN TrimEnd(SubSeq(s, 1, Len(s) - 1))
    ELSE s

Trim(s) == TrimEnd(TrimStart(s))

StripSuffix(s, t) ==
    IF s # <<>> /\ s[Len(s)] = t THEN Some(SubSeq(s, 1, Len(s) - 1)) ELSE None

\* Position of the first occurrence of t in s, 0 when there is none.
RECURSIVE Find(_, _)
Find(s, t) ==
    IF s = <<>> THEN 0
    ELSE IF Head(s) = t THEN 1
    ELSE LET r == Find(Tail(s), t) IN IF r = 0 THEN 0 ELSE r + 1

\* s.split(t).nth(1): the piece between the first and the second occurrence.
SplitNth1(s, t) ==
    LET i == Find(s, t) IN
    IF i = 0 THEN None
    ELSE LET rest == SubSeq(s, i + 1, Len(s))
             j    == Find(rest, t)
         IN  Some(IF j = 0 THEN rest ELSE SubSeq(rest, 1, j - 1))

\* s.replace(from, to): every occurrence, the replacement is not rescanned.
RECURSIVE Replace(_, _, _)
Replace(s, from, to) ==
    IF s = <<>> THEN <<>>
    ELSE IF Head(s) = from THEN to \o Replace(Tail(s), from, to)
    ELSE <<Head(s)>> \o Replace(Tail(s), from, to)

\* format!("{:?}", wasm) of a Vec<u8>: "[1, 2, 3]".
RECURSIVE DebugItems(_)
DebugItems(w) ==
    IF w = <<>> THEN <<>>
    ELSE IF Len(w) = 1 THEN <<ToString(w[1])>>
    ELSE <<ToString(w[1]), ", ">> \o DebugItems(Tail(w))

FormatDebug(w) == <<"[">> \o DebugItems(w) \o <<"]">>

----------------------------------------------------------------------------
(* Values of the handler *)

NoResult == [kind |-> "None", text |-> <<>>]

OkHtml(t) == [kind |-> "Html", text |-> t]

ErrUnknown(msg) == [kind |-> "Unknown", text |-> msg]

ErrBsonDeserialize == [kind |-> "BsonDeserializeError", text |-> <<"bson">>]

NoResponse == [tag |-> "None", index_html |-> <<>>, js |-> <<>>, wasm |-> <<>>, e |-> <<>>]

Output(js, wasm) ==
    [tag |-> "Output", index_html |-> <<"index_html">>, js |-> js, wasm |-> wasm, e |-> <<>>]

CompileError(e) ==
    [tag |-> "CompileError", index_html |-> <<>>, js |-> <<>>, wasm |-> <<>>, e |-> e]

NoBody == [kind |-> "none", text |-> <<>>, doc |-> NoResponse]

NoRes == [status |-> 0, body |-> NoBody]

----------------------------------------------------------------------------
(* The compiler service's answers.  A body is what the two readers of the   *)
(* handler see of its bytes: `text` is what Response::text yields, `doc`    *)
(* the document bson::from_slice finds in them.                             *)

PlainBody(t) == [kind |-> "plain", text |-> t, doc |-> NoResponse]

BsonBody(d) == [kind |-> "bson", text |-> <<"<bson bytes>">>, doc |-> d]

TruncatedBody(d) == [kind |-> "truncated", text |-> <<"<bson byt">>, doc |-> d]

\* bson::from_slice into common::Response: the bytes must be a whole document
\* whose tag is one of the enum's variants.
FromSlice(body) ==
    IF body.kind = "bson" /\ body.doc.tag \in {"Output", "CompileError"}
    THEN Some(body.doc)
    ELSE [some |-> FALSE, val |-> NoResponse]

\* StatusCode::is_success
IsSuccess(status) == status >= 200 /\ status <= 299

----------------------------------------------------------------------------
(* The handler's computations *)

\* line 97 with split(..).last() in place of nth(1): the piece after the
\* last marker, the whole script when there is no marker.
ExtractInit_LastPiece(js) ==
    LET marks == {k \in DOMAIN js : js[k] = ExportDefault}
        from  == IF marks = {} THEN 0 ELSE CHOOSE k \in marks : \A m \in marks : m <= k
    IN  StripSuffix(Trim(SubSeq(js, from + 1, Len(js))), ";")

\* line 97 with splitn(2, ..) in place of split: the piece runs to the end
\* of the script.
ExtractInit_ToEnd(js) ==
    LET i == Find(js, ExportDefault) IN
    IF i = 0 THEN None ELSE StripSuffix(Trim(SubSeq(js, i + 1, Len(js))), ";")

\* line 97
ExtractInit(js) ==
    LET piece == SplitNth1(js, ExportDefault) IN
    IF piece.some THEN StripSuffix(Trim(piece.val), ";") ELSE None

\* line 101
InitExpr(fn, wasm) ==
    fn \o <<"((new Int8Array(">> \o FormatDebug(wasm) \o <<")).buffer)">>

\* lines 100 and 102
Page(js, init) ==
    Replace(Replace(INDEX_HTML, JsMarker, js), InitMarker, init)

\* lines 90-112 with the compile error put through the template as well
Assemble_ErrorInTemplate(resp) ==
    IF resp.tag = "Output"
    THEN LET fn == ExtractInit(resp.js) IN
         IF fn.some
         THEN [result |-> OkHtml(Page(resp.js, InitExpr(fn.val, resp.wasm))), init_fn |-> fn]
         ELSE [result |-> ErrUnknown(NotFoundMsg), init_fn |-> fn]
    ELSE [result |-> OkHtml(Page(resp.e, <<>>)), init_fn |-> None]

\* lines 90-112: the value returned and the init_fn found on the way
Assemble(resp) ==
    IF resp.tag = "Output"
    THEN LET fn == ExtractInit(resp.js) IN
         IF fn.some
         THEN [result |-> OkHtml(Page(resp.js, InitExpr(fn.val, resp.wasm))), init_fn |-> fn]
         ELSE [result |-> ErrUnknown(NotFoundMsg), init_fn |-> fn]
    ELSE [result |-> OkHtml(resp.e), init_fn |-> None]

\* lines 72-76
StatusError(body) == ErrUnknown(ServiceErrorPrefix \o body.text)

\* lines 78-112, once the bytes of the body are there
Decoded(body) ==
    LET d == FromSlice(body) IN
    IF d.some
    THEN [run_response |-> d.val] @@ Assemble(d.val)
    ELSE [run_response |-> NoResponse, result |-> ErrBsonDeserialize, init_fn |-> None]

----------------------------------------------------------------------------
(* Inputs *)

ScriptTokens == {"f", " ", ";", ExportDefault, JsMarker, InitMarker}

ScenarioScript == <<"function f(){}", " ", ExportDefault, " ", "f", ";">>

Scripts ==
    UNION {[1..n -> ScriptTokens] : n \in 0..MaxScriptLen} \cup {ScenarioScript}

Modules == {<<>>, <<1, 2, 3>>, <<0, 255>>}

Messages == {<<>>, <<"syntax error on line 3">>, <<"<b>", "&", JsMarker>>}

Documents ==
    {Output(js, w) : js \in Scripts, w \in Modules}
        \cup {CompileError(e) : e \in Messages}
        \cup {[NoResponse EXCEPT !.tag = "Other"]}

SuccessBodies ==
    {BsonBody(d) : d \in Documents}
        \cup {TruncatedBody(Output(ScenarioScript, <<1, 2, 3>>)), PlainBody(<<>>)}

ErrorBodies ==
    {PlainBody(<<"internal compiler error">>), PlainBody(<<>>),
     BsonBody(Output(ScenarioScript, <<1, 2, 3>>)),
     BsonBody(CompileError(<<"syntax error on line 3">>))}

Statuses == {200, 404, 500}

Codes == {<<"fn main() {}">>, <<>>}

----------------------------------------------------------------------------
(* The process *)

Init ==
    /\ envUrl \in BOOLEAN
    /\ compilerUrl = "uninit"
    /\ server = "boot"
    /\ pc = "idle"
    /\ code = <<>>
    /\ res = NoRes
    /\ run_response = NoResponse
    /\ init_fn = None
    /\ result = NoResult
    /\ calls = 0
    /\ responses = 0

\* main, lines 124-139: the listener is bound and serves; PORT is the only
\* lazy value main reads.
MainServe ==
    /\ server = "boot"
    /\ server' = "serving"
    /\ UNCHANGED <<envUrl, compilerUrl, pc, code, res, run_response, init_fn,
                   result, calls, responses>>

\* main, lines 136-139: bind fails and unwrap ends the process.
MainBindFails ==
    /\ server = "boot"
    /\ server' = "crashed"
    /\ UNCHANGED <<envUrl, compilerUrl, pc, code, res, run_response, init_fn,
                   result, calls, responses>>

\* line 59: the router hands a request to run.
Accept(c) ==
    /\ server = "serving"
    /\ pc = "idle"
    /\ pc' = "send"
    /\ code' = c
    /\ res' = NoRes
    /\ run_response' = NoResponse
    /\ init_fn' = None
    /\ result' = NoResult
    /\ calls' = 0
    /\ responses' = 0
    /\ UNCHANGED <<envUrl, compilerUrl, server>>

\* lines 24-25: the first read of COMPILER_URL runs its initialiser, which
\* panics when the variable is unset and leaves the cell poisoned.
UrlReadable == compilerUrl = "ready" \/ (compilerUrl = "uninit" /\ envUrl)

\* line 63: *COMPILER_URL panics; the task ends and nothing is written.
SendPanics ==
    /\ pc = "send"
    /\ ~UrlReadable
    /\ compilerUrl' = "poisoned"
    /\ pc' = "panicked"
    /\ UNCHANGED <<envUrl, server, code, res, run_response, init_fn, result,
                   calls, responses>>

\* lines 62-67: the request is sent and the transport fails.
SendFails ==
    /\ pc = "send"
    /\ UrlReadable
    /\ compilerUrl' = "ready"
    /\ calls' = calls + 1
    /\ result' = ErrUnknown(<<"error sending request">>)
    /\ responses' = responses + 1
    /\ pc' = "done"
    /\ UNCHANGED <<envUrl, server, code, res, run_response, init_fn>>

\* lines 62-70: the request is sent and the response's head arrives; the
\* body is streamed when text() or bytes() is awaited.
SendReturns(status) ==
    /\ pc = "send"
    /\ UrlReadable
    /\ compilerUrl' = "ready"
    /\ calls' = calls + 1
    /\ res' = [status |-> status, body |-> NoBody]
    /\ pc' = "status"
    /\ UNCHANGED <<envUrl, server, code, run_response, init_fn, result,
                   responses>>

\* lines 72-76: a non-success status, the body is read as text.
ErrorStatus ==
    /\ pc = "status"
    /\ ~IsSuccess(res.status)
    /\ \E body \in ErrorBodies :
        /\ res' = [res EXCEPT !.body = body]
        /\ result' = StatusError(body)
    /\ responses' = responses + 1
    /\ pc' = "done"
    /\ UNCHANGED <<envUrl, compilerUrl, server, code, run_response,
                   init_fn, calls>>

\* line 74: reading the body fails and unwrap panics.
ErrorStatusTextPanics ==
    /\ pc = "status"
    /\ ~IsSuccess(res.status)
    /\ pc' = "panicked"
    /\ UNCHANGED <<envUrl, compilerUrl, server, code, res, run_response,
                   init_fn, result, calls, responses>>

\* lines 79-82: reading the body of a success response fails.
BytesFail ==
    /\ pc = "status"
    /\ IsSuccess(res.status)
    /\ result' = ErrUnknown(<<"error decoding response body">>)
    /\ responses' = responses + 1
    /\ pc' = "done"
    /\ UNCHANGED <<envUrl, compilerUrl, server, code, res, run_response,
                   init_fn, calls>>

\* lines 78-112: the body is read, decoded and assembled.
SuccessStatus ==
    /\ pc = "status"
    /\ IsSuccess(res.status)
    /\ \E body \in SuccessBodies :
        LET d == Decoded(body) IN
        /\ res' = [res EXCEPT !.body = body]
        /\ run_response' = d.run_response
        /\ init_fn' = d.init_fn
        /\ result' = d.result
    /\ responses' = responses + 1
    /\ pc' = "done"
    /\ UNCHANGED <<envUrl, compilerUrl, server, code, calls>>

\* The job is over (its response written, or its task gone) and is dropped.
Finish ==
    /\ pc \in {"done", "panicked"}
    /\ pc' = "idle"
    /\ code' = <<>>
    /\ res' = NoRes
    /\ run_response' = NoResponse
    /\ init_fn' = None
    /\ result' = NoResult
    /\ calls' = 0
    /\ responses' = 0
    /\ UNCHANGED <<envUrl, compilerUrl, server>>

Next ==
    \/ MainServe
    \/ MainBindFails
    \/ \E c \in Codes : Accept(c)
    \/ SendPanics
    \/ SendFails
    \/ \E s \in Statuses : SendReturns(s)
    \/ ErrorStatus
    \/ ErrorStatusTextPanics
    \/ BytesFail
    \/ SuccessStatus
    \/ Finish

Spec == Init /\ [][Next]_vars

----------------------------------------------------------------------------
(* Vocabulary of the properties *)

Ended == pc \in {"done", "panicked"}

\* run returned after decoding an Output
GotOutput == pc = "done" /\ run_response.tag = "Output"

\* run returned after decoding a CompileError
GotCompileError == pc = "done" /\ run_response.tag = "CompileError"

HasMarker(js) == \E i \in DOMAIN js : js[i] = ExportDefault

\* n occurs in h as a contiguous piece
Contains(h, n) ==
    \E i \in 0..(Len(h) - Len(n)) : SubSeq(h, i + 1, i + Len(n)) = n

Count(s, t) == Cardinality({i \in DOMAIN s : s[i] = t})

AllWhitespace(s, from, to) == \A k \in from..to : IsWhitespace(s[k])

IsIdentToken(t) == t \in {"f"}

\* The first marker is at i, and what follows it, up to the end of the
\* script, is whitespace, an identifier (tokens a+1..b), ";", whitespace.
WellFormedAt(js, i, a, b) ==
    /\ js[i] = ExportDefault
    /\ \A k \in 1..(i - 1) : js[k] # ExportDefault
    /\ i <= a /\ a < b /\ b < Len(js)
    /\ AllWhitespace(js, i + 1, a)
    /\ \A k \in (a + 1)..b : IsIdentToken(js[k])
    /\ js[b + 1] = ";"
    /\ AllWhitespace(js, b + 2, Len(js))

InitCall(ident, wasm) ==
    ident \o <<"((new Int8Array(">> \o FormatDebug(wasm) \o <<")).buffer)">>

\* Everything after the first occurrence of the marker, to the end.
AfterFirstMarker(js) ==
    LET i == CHOOSE k \in DOMAIN js :
                 js[k] = ExportDefault /\ \A m \in 1..(k - 1) : js[m] # ExportDefault
    IN  SubSeq(js, i + 1, Len(js))

\* s without one trailing ";", s itself when it has none
WithoutTerminator(s) ==
    IF s # <<>> /\ s[Len(s)] = ";" THEN SubSeq(s, 1, Len(s) - 1) ELSE s

\* s without its leading and trailing whitespace, stated by positions
Trimmed(s) ==
    LET keep == {k \in DOMAIN s : ~IsWhitespace(s[k])} IN
    IF keep = {} THEN <<>>
    ELSE SubSeq(s, CHOOSE k \in keep : \A m \in keep : k <= m,
                   CHOOSE k \in keep : \A m \in keep : m <= k)

----------------------------------------------------------------------------
(* Properties *)

\* C1: for every Output whose script holds the marker followed by a
\* well-formed statement (identifier, terminator), and every module, run
\* returns HTML that contains the script text verbatim and the call
\* <identifier>((new Int8Array([<bytes>])).buffer).
C1_WellFormedAssembles ==
    (GotOutput /\ \E i, a, b \in DOMAIN run_response.js :
                      WellFormedAt(run_response.js, i, a, b))
    => /\ result.kind = "Html"
       /\ Contains(result.text, run_response.js)
       /\ \A i, a, b \in DOMAIN run_response.js :
              WellFormedAt(run_response.js, i, a, b)
              => Contains(result.text,
                          InitCall(SubSeq(run_response.js, a + 1, b), run_response.wasm))

\* C2: for every Output whose script does not contain the marker, run ends
\* with the "failed to find init function" error and returns no HTML.
C2_NoMarkerFails ==
    (run_response.tag = "Output" /\ ~HasMarker(run_response.js))
    => /\ pc = "done"
       /\ result = ErrUnknown(NotFoundMsg)
       /\ result.kind # "Html"
       /\ responses = 1

C2_Witness ==
    /\ GotOutput
    /\ ~HasMarker(run_response.js)
    /\ Contains(run_response.js, <<"f", ";">>)
    /\ result.kind = "Unknown"

\* C3: for every CompileError the job ends with a normal HTML response whose
\* body is the message, unchanged: no template, no escaping.
C3_CompileErrorVerbatim ==
    run_response.tag = "CompileError"
    => /\ pc = "done"
       /\ result = OkHtml(run_response.e)
       /\ responses = 1

C3_Witness ==
    /\ GotCompileError
    /\ run_response.e = <<"<b>", "&", JsMarker>>
    /\ result.kind = "Html"

\* C4: whenever the compiler answers with a non-success status, the job ends
\* with the error that carries the body's text, and the body is never
\* decoded nor assembled.
C4_ErrorStatusCarriesText ==
    (Ended /\ res.status # 0 /\ ~IsSuccess(res.status))
    => /\ pc = "done"
       /\ result = ErrUnknown(ServiceErrorPrefix \o res.body.text)
       /\ run_response = NoResponse

\* C5: every job that reached the compiler ends with exactly one response to
\* its caller, whatever the compiler's answer was.
C5_OneResponsePerJob ==
    (Ended /\ calls >= 1) => (pc = "done" /\ responses = 1)

\* C6: every job that ended has issued exactly one outbound request.
C6_OneCallPerJob ==
    Ended => calls = 1

\* C7: a process without COMPILER_URL never serves: no job is accepted.
C7_FailFastWithoutUrl ==
    ~envUrl => (server # "serving" /\ pc = "idle")

\* C8 (as stated): for every script with the marker, the identifier is all
\* the text after the first marker, to the end of the script, trimmed, with
\* one trailing ";" removed when there is one.
C8_IdentifierToEnd ==
    (GotOutput /\ HasMarker(run_response.js)
        /\ WithoutTerminator(Trimmed(AfterFirstMarker(run_response.js))) # <<>>)
    => /\ result.kind = "Html"
       /\ init_fn = Some(WithoutTerminator(Trimmed(AfterFirstMarker(run_response.js))))

\* C8 (amended): for every script with the marker, the text looked at lies
\* between the first marker and the next one (the end of the script when
\* there is none), trimmed.  When it ends with ";" the identifier is that
\* text without this ";" and the page holds the call on it; otherwise run
\* ends with the "failed to find init function" error.
C8_IdentifierBetweenMarkers ==
    (GotOutput /\ HasMarker(run_response.js))
    => LET js == run_response.js IN
       \E i \in DOMAIN js : \E j \in (i + 1)..(Len(js) + 1) :
          /\ js[i] = ExportDefault
          /\ \A k \in 1..(i - 1) : js[k] # ExportDefault
          /\ j <= Len(js) => js[j] = ExportDefault
          /\ \A k \in (i + 1)..(j - 1) : js[k] # ExportDefault
          /\ LET t == Trimmed(SubSeq(js, i + 1, j - 1)) IN
             IF t # <<>> /\ t[Len(t)] = ";"
             THEN /\ init_fn = Some(SubSeq(t, 1, Len(t) - 1))
                  /\ result.kind = "Html"
                  /\ Contains(result.text,
                              InitCall(SubSeq(t, 1, Len(t) - 1), run_response.wasm))
             ELSE /\ init_fn = None
                  /\ result = ErrUnknown(NotFoundMsg)

C8_Witness ==
    /\ GotOutput
    /\ Count(run_response.js, ExportDefault) >= 2
    /\ run_response.js[Len(run_response.js)] = ExportDefault
    /\ result.kind = "Html"
    /\ init_fn = Some(<<"f">>)

\* C9: when the script has the marker and nothing remains after it once the
\* whitespace is trimmed and the terminator stripped, run ends with the
\* "failed to find init function" error, never with a page.
C9_EmptyIdentifierFails ==
    (GotOutput /\ HasMarker(run_response.js)
        /\ WithoutTerminator(Trimmed(AfterFirstMarker(run_response.js))) = <<>>)
    => result = ErrUnknown(NotFoundMsg)

\* C10: the template holds each marker once, and every page is the template
\* with the script marker replaced by the script, verbatim, and the
\* initialization marker by the initialization expression.
C10_OnlyTemplateMarkers ==
    /\ Count(INDEX_HTML, JsMarker) = 1
    /\ Count(INDEX_HTML, InitMarker) = 1
    /\ (GotOutput /\ result.kind = "Html")
       => result.text = <<INDEX_HTML[1]>> \o run_response.js \o <<INDEX_HTML[3]>>
                           \o InitCall(init_fn.val, run_response.wasm)
                           \o <<INDEX_HTML[5]>>

====
